---- MODULE Spec2Model ----
(***************************************************************************)
(* HashMap<KeyType, ValueType, Hash> of src/task1.cpp: a std::list of      *)
(* (key, value) nodes (elemets_) indexed by an open-addressing table       *)
(* (data_) with Robin Hood insertion and backward-shift deletion.          *)
(*                                                                         *)
(* A map object is the record [data, size, elems, fault, load, depth,      *)
(* nested]:                                                                *)
(*   data   the vector data_; position p of the code is data[p + 1]        *)
(*   size   size_                                                          *)
(*   elems  the list elemets_; every node carries the identity of its      *)
(*          allocation (id), which is what a list iterator designates      *)
(*   fault  "none", or the undefined behaviour the object ran into         *)
(*   load   history: every call of insert on the object that has returned, *)
(*          the nested ones of rebuild_ included, left                     *)
(*          REBUILD_CONSTANT * size_ <= data_.size()                       *)
(*   depth  the number of calls of rebuild_ in progress                    *)
(*   nested history: a call of rebuild_ began while another was in         *)
(*          progress                                                       *)
(* The member functions are operators from map records to map records.     *)
(***************************************************************************)
EXTENDS Integers, Sequences, FiniteSets, TLC

(* ------------------------------ bounds -------------------------------- *)
NumKeys == 3
MaxValue == 1
MaxSize == 3
MaxInput == 2

Keys == 1..NumKeys
Values == 0..MaxValue

(* ------------------------- program constants -------------------------- *)
REBUILD_CONSTANT == 3
EXTENDED_CONSTANT == 2
EXTENDED_SHIFT == 3

\* ValueType(): the value-initialised mapped value operator[] inserts.
DefaultValue == 0

\* end(): the past-the-end iterator; node identities start at 1.
End == 0

\* The hash functor.  Keys 1 and 2 collide in every table the model builds
\* and sit in the last slot of the tables of 3, 9 and 21 slots, so probing
\* wraps around; key 3 sits in slot 0 of those tables.
hasher_(k) ==
    CASE k = 1 -> 62
      [] k = 2 -> 125
      [] k = 3 -> 63
      [] OTHER -> 9 * k

(* ------------------------------ slots --------------------------------- *)
\* HashTableData.  The code never reads distance or iterator of a slot whose
\* is_empty is set, so an empty slot is represented by its default value.
EmptySlot == [is_empty |-> TRUE, distance |-> 0, iterator |-> End]

NoFault == "none"

\* The default constructor: no slots, no nodes.
HashMapDefault ==
    [data |-> <<>>, size |-> 0, elems |-> <<>>, fault |-> NoFault, load |-> TRUE,
     depth |-> 0, nested |-> FALSE]

Ids(elems) == {elems[i].id : i \in 1..Len(elems)}

SlotIds(data) == {data[i].iterator : i \in {j \in 1..Len(data) : ~data[j].is_empty}}

IsLive(m, id) == id \in Ids(m.elems)

NodeOf(m, id) == m.elems[CHOOSE i \in 1..Len(m.elems) : m.elems[i].id = id]

\* A fresh allocation: an identity no live node, no slot and no iterator in
\* `avoid` (nodes of other lists, iterators the caller holds) carries.
FreshId(m, avoid) ==
    LET used == Ids(m.elems) \cup SlotIds(m.data) \cup avoid
    IN  CHOOSE i \in 1..(Cardinality(used) + 1) :
            i \notin used /\ \A j \in 1..(i - 1) : j \in used

next_(m, position) ==
    IF position + 1 = Len(m.data) THEN 0 ELSE position + 1

Fault(m, kind) == [m EXCEPT !.fault = kind]

(* ------------------------------ insert -------------------------------- *)
RECURSIVE insert_probe(_, _, _, _, _)
\* The while (true) loop of insert: `steps` counts the slots it has left
\* behind.  The loop stops only at an empty slot or at the key it carries;
\* once it has left data_.size() slots behind it has met neither in the
\* whole table ("hang").
insert_probe(m, position, distance, current_elemet, steps) ==
    LET slot == m.data[position + 1]
    IN  IF slot.is_empty
        THEN [m EXCEPT !.data[position + 1] =
                 [is_empty |-> FALSE, distance |-> distance, iterator |-> current_elemet]]
        ELSE IF ~IsLive(m, slot.iterator)
        THEN Fault(m, "dangling")
        ELSE IF NodeOf(m, slot.iterator).first = NodeOf(m, current_elemet).first
        THEN m
        ELSE IF steps >= Len(m.data)
        THEN Fault(m, "hang")
        ELSE IF slot.distance < distance
        THEN insert_probe(
                 [m EXCEPT !.data[position + 1] =
                     [is_empty |-> FALSE, distance |-> distance, iterator |-> current_elemet]],
                 next_(m, position), slot.distance + 1, slot.iterator, steps + 1)
        ELSE insert_probe(m, next_(m, position), distance + 1, current_elemet, steps + 1)

RECURSIVE insert(_, _, _, _)
RECURSIVE rebuild_loop(_, _, _, _)

\* rebuild_, lines 279-281: size_ = 0 and the list swapped into
\* current_elements, which leaves elemets_ empty.
Detached_keeps_size(m) == [m EXCEPT !.elems = <<>>]

Detached(m) == [m EXCEPT !.size = 0, !.elems = <<>>]

\* rebuild_: the nodes of the old list live until rebuild_ returns.
rebuild_(m, avoid) ==
    LET current_elements == m.elems
        entered == [Detached(m) EXCEPT !.depth = @ + 1, !.nested = @ \/ m.depth > 0]
        left == rebuild_loop(entered, current_elements, 1, avoid \cup Ids(current_elements))
    IN  [left EXCEPT !.depth = @ - 1]

rebuild_loop(m, current_elements, i, avoid) ==
    IF i > Len(current_elements) \/ m.fault # NoFault
    THEN m
    ELSE rebuild_loop(insert(m, current_elements[i].first, current_elements[i].second, avoid),
                      current_elements, i + 1, avoid)

\* Tests that rebuild later than the code does.
NeedsRebuild_when_full(m) == m.size > Len(m.data)

NeedsRebuild_wrong_constant(m) == m.size * EXTENDED_CONSTANT > Len(m.data)

\* The test of line 127, made after size_++ and emplace_back.
NeedsRebuild(m) == m.size * REBUILD_CONSTANT > Len(m.data)

\* A table grown in place, the slots it had kept.
Regrown_keeps_slots(m) ==
    [m EXCEPT !.data = [i \in 1..(EXTENDED_CONSTANT * Len(m.data) + EXTENDED_SHIFT)
                           |-> IF i <= Len(m.data) THEN m.data[i] ELSE EmptySlot]]

\* The vector of line 128: every slot default-initialised.
Regrown(m) ==
    [m EXCEPT !.data = [i \in 1..(EXTENDED_CONSTANT * Len(m.data) + EXTENDED_SHIFT)
                           |-> EmptySlot]]

\* The history of the load factor, taken when insert returns m.
Returned(m) ==
    IF m.fault = NoFault
    THEN [m EXCEPT !.load = @ /\ REBUILD_CONSTANT * m.size <= Len(m.data)]
    ELSE m

insert(m, key, value, avoid) ==
    LET id == FreshId(m, avoid)
        m1 == [m EXCEPT !.size = @ + 1,
                        !.elems = Append(@, [id |-> id, first |-> key, second |-> value])]
    IN  IF NeedsRebuild(m1)
        THEN Returned(rebuild_(Regrown(m1), avoid))
        ELSE Returned(insert_probe(m1, hasher_(key) % Len(m1.data), 0, id, 0))

(* ------------------------------- erase -------------------------------- *)
backward_shift_missing(m, prev_position, position) == m

RECURSIVE backward_shift_keeps_distance(_, _, _)
\* A shift that moves the entries back without taking one off distance.
backward_shift_keeps_distance(m, prev_position, position) ==
    LET slot == m.data[position + 1]
    IN  IF ~slot.is_empty /\ slot.distance > 0
        THEN backward_shift_keeps_distance(
                 [m EXCEPT !.data[prev_position + 1] = slot,
                           !.data[position + 1] = EmptySlot],
                 position, next_(m, position))
        ELSE m

RECURSIVE backward_shift(_, _, _)
\* The inner while loop of erase.
backward_shift(m, prev_position, position) ==
    LET slot == m.data[position + 1]
    IN  IF ~slot.is_empty /\ slot.distance > 0
        THEN backward_shift(
                 [m EXCEPT !.data[prev_position + 1] =
                               [is_empty |-> FALSE, distance |-> slot.distance - 1,
                                iterator |-> slot.iterator],
                           !.data[position + 1] = EmptySlot],
                 position, next_(m, position))
        ELSE m

RemoveNode(elems, id) == SelectSeq(elems, LAMBDA n : n.id # id)

RECURSIVE erase_probe(_, _, _, _)
\* The outer while (true) loop of erase.
erase_probe(m, key, position, distance) ==
    LET slot == m.data[position + 1]
    IN  IF slot.is_empty
        THEN m
        ELSE IF slot.distance = distance /\ ~IsLive(m, slot.iterator)
        THEN Fault(m, "dangling")
        ELSE IF slot.distance = distance /\ NodeOf(m, slot.iterator).first = key
        THEN backward_shift(
                 [m EXCEPT !.size = @ - 1,
                           !.elems = RemoveNode(@, slot.iterator),
                           !.data[position + 1] = EmptySlot],
                 position, next_(m, position))
        ELSE IF distance >= Len(m.data)
        THEN Fault(m, "hang")
        ELSE erase_probe(m, key, next_(m, position), distance + 1)

erase(m, key) ==
    IF m.size = 0
    THEN m
    ELSE IF Len(m.data) = 0
    THEN Fault(m, "div0")
    ELSE erase_probe(m, key, hasher_(key) % Len(m.data), 0)

(* -------------------------------- find -------------------------------- *)
RECURSIVE find_probe(_, _, _, _)
\* The while (true) loop of find; the result is [it, fault].
find_probe(m, key, position, distance) ==
    LET slot == m.data[position + 1]
    IN  IF slot.is_empty
        THEN [it |-> End, fault |-> NoFault]
        ELSE IF slot.distance = distance /\ ~IsLive(m, slot.iterator)
        THEN [it |-> End, fault |-> "dangling"]
        ELSE IF slot.distance = distance /\ NodeOf(m, slot.iterator).first = key
        THEN [it |-> slot.iterator, fault |-> NoFault]
        ELSE IF distance >= Len(m.data)
        THEN [it |-> End, fault |-> "hang"]
        ELSE find_probe(m, key, next_(m, position), distance + 1)

find(m, key) ==
    IF m.size = 0
    THEN [it |-> End, fault |-> NoFault]
    ELSE IF Len(m.data) = 0
    THEN [it |-> End, fault |-> "div0"]
    ELSE find_probe(m, key, hasher_(key) % Len(m.data), 0)

(* --------------------------- operator[] / at --------------------------- *)
\* operator[]: the result is [m, it], `it` the node whose value is returned
\* by reference.  Dereferencing end() is undefined.
index(m, key, avoid) ==
    LET r == find(m, key)
    IN  IF r.fault # NoFault
        THEN [m |-> Fault(m, r.fault), it |-> End]
        ELSE IF r.it # End
        THEN [m |-> m, it |-> r.it]
        ELSE LET m1 == insert(m, key, DefaultValue, avoid)
                 r1 == IF m1.fault # NoFault
                       THEN [it |-> End, fault |-> m1.fault]
                       ELSE find(m1, key)
             IN  IF r1.fault # NoFault
                 THEN [m |-> Fault(m1, r1.fault), it |-> End]
                 ELSE IF r1.it = End
                 THEN [m |-> Fault(m1, "deref_end"), it |-> End]
                 ELSE [m |-> m1, it |-> r1.it]

\* at: the result is [thrown, value, fault]; thrown is std::out_of_range.
at(m, key) ==
    LET r == find(m, key)
    IN  IF r.fault # NoFault
        THEN [thrown |-> FALSE, value |-> DefaultValue, fault |-> r.fault]
        ELSE IF r.it = End
        THEN [thrown |-> TRUE, value |-> DefaultValue, fault |-> NoFault]
        ELSE [thrown |-> FALSE, value |-> NodeOf(m, r.it).second, fault |-> NoFault]

(* ------------------------------- clear -------------------------------- *)
clear_walk_home_only(m, position) == [m EXCEPT !.data[position + 1] = EmptySlot]

RECURSIVE clear_walk(_, _)
\* The inner while loop of clear.
clear_walk(m, position) ==
    IF ~m.data[position + 1].is_empty
    THEN clear_walk([m EXCEPT !.data[position + 1] = EmptySlot], next_(m, position))
    ELSE m

RECURSIVE clear_loop(_, _)
\* The range-for of clear over elemets_.
clear_loop(m, i) ==
    IF i > Len(m.elems)
    THEN m
    ELSE IF Len(m.data) = 0
    THEN Fault(m, "div0")
    ELSE clear_loop(clear_walk(m, hasher_(m.elems[i].first) % Len(m.data)), i + 1)

clear(m) ==
    LET m1 == clear_loop(m, 1)
    IN  IF m1.fault # NoFault
        THEN m1
        ELSE [m1 EXCEPT !.size = 0, !.elems = <<>>]

(* ---------------------- reserve_ and construction ---------------------- *)
\* data_.resize(EXTENDED_CONSTANT * size): slots beyond the new length are
\* dropped, new slots are default-initialised, kept slots are untouched.
reserve_(m, size) ==
    [m EXCEPT !.data = [i \in 1..(EXTENDED_CONSTANT * size) |->
                           IF i <= Len(m.data) THEN m.data[i] ELSE EmptySlot]]

RECURSIVE insert_all(_, _, _, _)
\* for (auto &value : values) insert(value);
insert_all(m, values, i, avoid) ==
    IF i > Len(values) \/ m.fault # NoFault
    THEN m
    ELSE insert_all(insert(m, values[i].first, values[i].second, avoid), values, i + 1, avoid)

\* HashMap(begin, end)
HashMapRange(input, avoid) ==
    insert_all(reserve_(HashMapDefault, Len(input)), input, 1, avoid)

\* HashMap(initializer_list)
HashMapInitList(input, avoid) ==
    insert_all(reserve_(HashMapDefault, Len(input)), input, 1, avoid)

\* A copy that inserts the entries of another from the last to the first.
HashMapCopy_reversed(another, avoid) ==
    insert_all(reserve_([HashMapDefault EXCEPT !.load = another.load], another.size),
               [i \in 1..Len(another.elems) |->
                   another.elems[Len(another.elems) + 1 - i]],
               1, avoid)

\* HashMap(const HashMap &another); the copy takes over the history of the
\* object under observation.
HashMapCopy(another, avoid) ==
    insert_all(reserve_([HashMapDefault EXCEPT !.load = another.load], another.size),
               another.elems, 1, avoid)

\* operator=(another), for another a different object.
assign(m, another, avoid) ==
    insert_all(reserve_(m, another.size), another.elems, 1, avoid)

(* ============================ state machine ============================ *)
VARIABLES
    data_,      \* std::vector<HashTableData> data_
    size_,      \* size_t size_
    elemets_,   \* std::list<std::pair<const KeyType, ValueType>> elemets_
    fault,      \* "none" until an operation runs into undefined behaviour
    watch,      \* which of the histories below this run records
    op,         \* "op": the public operation that produced this state
    it,         \* "iterator": an iterator the caller keeps, with the pair it read
    log,        \* "distinct": the distinct-key inserts made on a map built empty
    expect,     \* "roundtrip": the (k, v) inserted while k was absent, not yet erased
    within_load,    \* history: the load field of the map record
    nested_rebuild  \* history: the nested field left by the last operation

vars ==
    <<data_, size_, elemets_, fault, watch, op, it, log, expect, within_load,
      nested_rebuild>>

\* The object as an operation finds it: no rebuild_ in progress.
This ==
    [data |-> data_, size |-> size_, elems |-> elemets_, fault |-> fault,
     load |-> within_load, depth |-> 0, nested |-> FALSE]

NoIt == [id |-> End, first |-> 0, second |-> 0]

Held == IF it.id = End THEN {} ELSE {it.id}

\* Node identities are opaque: only which iterators designate the same node
\* matters.  After every operation the identities are renamed so that the
\* i-th node of the list is i and the identities of destroyed nodes that a
\* slot or the caller's iterator still carries follow, in their old order.
Rank(S, x) == Cardinality({y \in S : y <= x})

Renamed(m, held, id) ==
    LET stale == (SlotIds(m.data) \cup held) \ Ids(m.elems)
    IN  IF id = End
        THEN End
        ELSE IF id \in Ids(m.elems)
        THEN CHOOSE i \in 1..Len(m.elems) : m.elems[i].id = id
        ELSE Len(m.elems) + Rank(stale, id)

Normal(m, held) ==
    [m EXCEPT !.data = [i \in 1..Len(m.data) |->
                           [m.data[i] EXCEPT !.iterator = Renamed(m, held, @)]],
              !.elems = [i \in 1..Len(m.elems) |-> [m.elems[i] EXCEPT !.id = i]]]

\* The map becomes m and the caller keeps the iterator kept.
Becomes(m, kept) ==
    LET held == IF watch = "iterator" /\ kept.id # End THEN {kept.id} ELSE {}
        n == Normal(m, held)
    IN  /\ data_' = n.data
        /\ size_' = n.size
        /\ elemets_' = n.elems
        /\ fault' = n.fault
        /\ within_load' = n.load
        /\ nested_rebuild' = n.nested
        /\ it' = IF watch = "iterator"
                 THEN [kept EXCEPT !.id = Renamed(m, held, @)]
                 ELSE NoIt

Pair(k, v) == [first |-> k, second |-> v]

Pairs == {Pair(k, v) : k \in Keys, v \in Values}

\* The (key, value) sequences handed to the range and initializer-list
\* constructors.
Inputs == UNION {[1..n -> Pairs] : n \in 0..MaxInput}

\* The maps a map is assigned from: each built by HashMap(begin, end).
Sources == {HashMapRange(input, {}) : input \in Inputs}

\* begin()..end() as the caller reads it.
Iteration(elems) == [i \in 1..Len(elems) |-> Pair(elems[i].first, elems[i].second)]

Found(m, k) == find(m, k).it # End

Op(name, k, present) == [name |-> name, key |-> k, present |-> present]

Record(o) == op' = IF watch = "op" THEN o ELSE op

NoLog == [pure |-> FALSE, pairs |-> <<>>]

EmptyLog == [pure |-> TRUE, pairs |-> <<>>]

Logged(l) == log' = IF watch = "distinct" THEN l ELSE log

Expected(e) == expect' = IF watch = "roundtrip" THEN e ELSE expect

\* The map under observation is m, built by the constructor that o names.
Built(m, o) ==
    LET n == Normal(m, {})
    IN  /\ data_ = n.data
        /\ size_ = n.size
        /\ elemets_ = n.elems
        /\ fault = n.fault
        /\ within_load = n.load
        /\ nested_rebuild = n.nested
        /\ op = IF watch = "op" THEN o ELSE Op("HashMap", 0, FALSE)
        /\ log = IF watch = "distinct" /\ n = HashMapDefault THEN EmptyLog ELSE NoLog
        /\ it = NoIt
        /\ expect = {}

\* The state after construction, recording the history w.
InitWatching(w) ==
    /\ watch = w
    /\ \/ Built(HashMapDefault, Op("HashMap", 0, FALSE))
       \/ \E input \in Inputs :
             Built(HashMapRange(input, {}), Op("HashMapRange", Len(input), FALSE))
       \/ \E input \in Inputs :
             Built(HashMapInitList(input, {}), Op("HashMapInitList", Len(input), FALSE))

Init == InitWatching("op")

\* HashMap(another): the copy replaces the map under observation.
ConstructCopy ==
    /\ fault = NoFault
    /\ Becomes(HashMapCopy(This, {}), NoIt)
    /\ Record(Op("HashMapCopy", 0, FALSE))
    /\ Logged(NoLog)
    /\ Expected({})
    /\ UNCHANGED watch

\* a = another, for another a different map.
Assign(another) ==
    /\ fault = NoFault
    /\ size_ + another.size <= MaxSize
    /\ Becomes(assign(This, another, {}), NoIt)
    /\ Record(Op("assign", another.size, FALSE))
    /\ Logged(NoLog)
    /\ Expected({})
    /\ UNCHANGED watch

\* a = a: this == &another, nothing happens.
AssignSelf ==
    /\ fault = NoFault
    /\ Record(Op("assign_self", 0, FALSE))
    /\ nested_rebuild' = FALSE
    /\ UNCHANGED <<data_, size_, elemets_, fault, watch, it, log, expect, within_load>>

Insert(k, v) ==
    LET present == find(This, k)
    IN  /\ fault = NoFault
        /\ size_ < MaxSize
        /\ Becomes(insert(This, k, v, Held), it)
        /\ Record(Op("insert", k, present.it # End))
        /\ Logged(IF log.pure /\ \A i \in 1..Len(log.pairs) : log.pairs[i].first # k
                  THEN [log EXCEPT !.pairs = Append(@, Pair(k, v))]
                  ELSE NoLog)
        /\ Expected(IF present.it = End /\ present.fault = NoFault
                    THEN expect \cup {<<k, v>>}
                    ELSE expect)
        /\ UNCHANGED watch

Erase(k) ==
    LET present == find(This, k)
        m == erase(This, k)
    IN  /\ fault = NoFault
        /\ Becomes(m, IF IsLive(This, it.id) /\ ~IsLive(m, it.id) THEN NoIt ELSE it)
        /\ Record(Op("erase", k, present.it # End))
        /\ Logged(NoLog)
        /\ Expected({e \in expect : e[1] # k})
        /\ UNCHANGED watch

\* operator[]: the caller keeps the reference it returns.
Index(k) ==
    LET present == find(This, k)
        r == index(This, k, Held)
    IN  /\ fault = NoFault
        /\ size_ < MaxSize
        /\ Becomes(r.m, IF r.it = End THEN NoIt ELSE NodeOf(r.m, r.it))
        /\ Record(Op("index", k, present.it # End))
        /\ Logged(NoLog)
        /\ Expected(IF present.it = End /\ present.fault = NoFault
                    THEN expect \cup {<<k, DefaultValue>>}
                    ELSE expect)
        /\ UNCHANGED watch

\* find: the caller keeps the iterator it returns.
Find(k) ==
    LET r == find(This, k)
    IN  /\ fault = NoFault
        /\ Becomes(Fault(This, r.fault), IF r.it = End THEN NoIt ELSE NodeOf(This, r.it))
        /\ Record(Op("find", k, r.it # End))
        /\ UNCHANGED <<watch, log, expect>>

\* at: op.present is FALSE when it threw std::out_of_range.
At(k) ==
    LET r == at(This, k)
    IN  /\ fault = NoFault
        /\ Becomes(Fault(This, r.fault), it)
        /\ Record(Op("at", k, ~r.thrown /\ r.fault = NoFault))
        /\ UNCHANGED <<watch, log, expect>>

Clear ==
    /\ fault = NoFault
    /\ Becomes(clear(This), NoIt)
    /\ Record(Op("clear", 0, FALSE))
    /\ Logged(NoLog)
    /\ Expected({})
    /\ UNCHANGED watch

Next ==
    \/ \E k \in Keys, v \in Values : Insert(k, v)
    \/ \E k \in Keys : Erase(k)
    \/ \E k \in Keys : Index(k)
    \/ \E k \in Keys : Find(k)
    \/ \E k \in Keys : At(k)
    \/ Clear
    \/ ConstructCopy
    \/ \E another \in Sources : Assign(another)
    \/ AssignSelf

\* Recording the operation that led to each state.
Spec == Init /\ [][Next]_vars

\* Recording an iterator the caller keeps.
SpecIterator == InitWatching("iterator") /\ [][Next]_vars

\* Recording the pairs inserted while their key was absent.
SpecRoundTrip == InitWatching("roundtrip") /\ [][Next]_vars

\* Sequences of insert calls, recording those of pairwise distinct keys made
\* on a map built empty.
NextInsert == \E k \in Keys, v \in Values : Insert(k, v)

SpecDistinct == InitWatching("distinct") /\ [][NextInsert]_vars

\* Sequences of insert, erase, operator[] and clear.
NextClear ==
    \/ \E k \in Keys, v \in Values : Insert(k, v)
    \/ \E k \in Keys : Erase(k)
    \/ \E k \in Keys : Index(k)
    \/ Clear

SpecClear == Init /\ [][NextClear]_vars

\* Maps built empty, then by inserts of keys find does not find and by
\* erases, and their copies.
InitEmpty ==
    /\ watch = "op"
    /\ Built(HashMapDefault, Op("HashMap", 0, FALSE))

NextCopy ==
    \/ \E k \in Keys, v \in Values : ~Found(This, k) /\ Insert(k, v)
    \/ \E k \in Keys : Erase(k)
    \/ ConstructCopy

SpecCopy == InitEmpty /\ [][NextCopy]_vars

(* =============================== claims =============================== *)
Occupied(data) == {p \in 1..Len(data) : ~data[p].is_empty}

KeysOf(elems) == {elems[i].first : i \in 1..Len(elems)}

\* C1: inserting a key that find already finds changes neither size() nor
\* the sequence begin()..end().
C1_InsertOfPresentKeyIsNoOp ==
    [][\A k \in Keys, v \in Values :
          (Found(This, k) /\ Insert(k, v))
              => /\ size_' = size_
                 /\ Iteration(elemets_') = Iteration(elemets_)]_vars

\* C2: when at(k) returns v1, it still returns v1 after insert((k, v2)).
C2_InsertKeepsValue ==
    [][\A k \in Keys, v \in Values :
          (Found(This, k) /\ Insert(k, v))
              => /\ ~at(This', k).thrown
                 /\ at(This', k).value = at(This, k).value]_vars

\* C3: after inserts of pairwise distinct keys on a map built empty, size()
\* is the number of inserts and begin()..end() yields the inserted pairs in
\* the order of insertion.
C3_DistinctInserts ==
    log.pure => /\ size_ = Len(log.pairs)
                /\ Iteration(elemets_) = log.pairs

\* Three distinct keys inserted, the table rebuilt on the first and the second.
C3_Witness ==
    /\ log.pure
    /\ Len(log.pairs) = 3
    /\ Len(data_) = 9

\* C4: an iterator obtained from find or operator[] designates a live node
\* holding the pair it held, until its entry is erased or the map cleared.
C4_IteratorsStayValid ==
    it.id # End => /\ IsLive(This, it.id)
                   /\ NodeOf(This, it.id).first = it.first
                   /\ NodeOf(This, it.id).second = it.second

\* C5: a pair (k, v) inserted while k was absent is what find(k) designates
\* until erase(k) or clear().
C5_RoundTrip ==
    \A e \in expect :
        LET r == find(This, e[1])
        IN  /\ r.it # End
            /\ NodeOf(This, r.it).first = e[1]
            /\ NodeOf(This, r.it).second = e[2]

\* C6: erase(k) completes and find(k) then returns end(), for every k.
C6_EraseThenFind ==
    [][\A k \in Keys :
          Erase(k) => /\ fault' = NoFault
                      /\ find(This', k) = [it |-> End, fault |-> NoFault]]_vars

\* The sequence s with its i-th element removed.
Without(s, i) == [j \in 1..(Len(s) - 1) |-> IF j < i THEN s[j] ELSE s[j + 1]]

\* C7: an erase(k) that returns takes one off size() when find(k) succeeded
\* and nothing otherwise, keeps every other findable key findable with its
\* value, and keeps the order of the entries that stay.
C7_EraseAffectsOnlyItsKey ==
    [][\A k \in Keys :
          (Erase(k) /\ fault' = NoFault)
              => /\ size_' = size_ - (IF Found(This, k) THEN 1 ELSE 0)
                 /\ \A j \in Keys \ {k} :
                        Found(This, j)
                            => /\ Found(This', j)
                               /\ at(This', j).value = at(This, j).value
                 /\ IF Found(This, k)
                    THEN \E i \in 1..Len(elemets_) :
                            /\ elemets_[i].first = k
                            /\ Iteration(elemets_') = Without(Iteration(elemets_), i)
                    ELSE Iteration(elemets_') = Iteration(elemets_)]_vars

\* C8: begin()..end() holds every key at most once, and holds exactly the
\* keys find finds.
C8_LedgerHoldsPresentKeysOnce ==
    fault = NoFault
        => /\ \A i, j \in 1..Len(elemets_) :
                  elemets_[i].first = elemets_[j].first => i = j
           /\ KeysOf(elemets_) = {k \in Keys : Found(This, k)}

\* C9: size() is the number of nodes of the list and the number of occupied
\* slots.
C9_SizeCountsNodesAndSlots ==
    fault = NoFault
        => /\ size_ = Len(elemets_)
           /\ size_ = Cardinality(Occupied(data_))

\* The last public operation ended in a call of insert that returned.
AfterInsert ==
    /\ fault = NoFault
    /\ \/ op.name = "insert"
       \/ op.name = "index" /\ ~op.present
       \/ op.name \in {"HashMapRange", "HashMapInitList", "assign"} /\ op.key > 0
       \/ op.name = "HashMapCopy" /\ size_ > 0

\* C10: whenever a call of insert has returned, those made by the
\* constructors, by operator[], by operator= and by rebuild_ included,
\* 3 * size() <= capacity.
C10_LoadFactor ==
    /\ within_load
    /\ AfterInsert => REBUILD_CONSTANT * size_ <= Len(data_)

\* erase(1) has moved key 2 back across the end of the table into the last
\* slot and key 3 back into slot 0: the three keys were present before.
C7_Witness ==
    /\ op = Op("erase", 1, TRUE)
    /\ size_ = 2
    /\ Len(data_) = 9
    /\ Iteration(elemets_) \in {<<Pair(2, v), Pair(3, w)>> : v, w \in Values}
    /\ ~data_[9].is_empty /\ NodeOf(This, data_[9].iterator).first = 2
    /\ ~data_[1].is_empty /\ NodeOf(This, data_[1].iterator).first = 3

\* C17: a rebuild begins only in insert, when 3 * size_ exceeds the
\* capacity after the append, makes the capacity 2 * old + 3, and none of
\* its re-inserts begins another rebuild.
C17_NoNestedRebuild ==
    ~nested_rebuild

\* An insert that left the table exactly at the ceiling.
C10_Witness ==
    /\ op.name = "insert"
    /\ fault = NoFault
    /\ size_ = 3
    /\ Len(data_) = 9

\* The values begin()..end() yields for key k.
ValuesOf(elems, k) == {elems[i].second : i \in {j \in 1..Len(elems) : elems[j].first = k}}

\* C11: at(k) throws std::out_of_range when begin()..end() does not hold k
\* and returns a value the sequence holds for k when it does; it leaves
\* size(), the list and the slots as they were.
C11_CheckedAccess ==
    [][\A k \in Keys :
          At(k) => LET r == at(This, k)
                   IN  /\ r.fault = NoFault
                       /\ r.thrown <=> k \notin KeysOf(elemets_)
                       /\ ~r.thrown => r.value \in ValuesOf(elemets_, k)
                       /\ <<data_, size_, elemets_>>' = <<data_, size_, elemets_>>]_vars

\* C12: operator[](k) on a key find does not find appends (k, ValueType()),
\* adds one to size() and returns a reference to the value of the appended
\* entry; on a key find finds it returns a reference to the value of the
\* entry found and changes neither size() nor begin()..end().
C12_IndexedAccess ==
    [][\A k \in Keys :
          Index(k)
              => LET r == index(This, k, Held)
                 IN  /\ r.m.fault = NoFault
                     /\ IF find(This, k).it = End
                        THEN /\ size_' = size_ + 1
                             /\ Iteration(elemets_') =
                                    Append(Iteration(elemets_), Pair(k, DefaultValue))
                             /\ r.it = r.m.elems[Len(r.m.elems)].id
                        ELSE /\ size_' = size_
                             /\ Iteration(elemets_') = Iteration(elemets_)
                             /\ r.it = find(This, k).it]_vars

\* The state clear() leaves: nothing in it, nothing for a second clear() to
\* change, and what is inserted next is found.
Cleared ==
    /\ fault = NoFault
    /\ size_ = 0
    /\ elemets_ = <<>>
    /\ Occupied(data_) = {}
    /\ clear(This) = This
    /\ \A k \in Keys, v \in Values :
           LET m1 == insert(This, k, v, {})
           IN  /\ at(m1, k) = [thrown |-> FALSE, value |-> v, fault |-> NoFault]
               /\ \A j \in Keys \ {k} :
                      LET m2 == insert(m1, j, DefaultValue, {})
                      IN  /\ at(m2, k) = [thrown |-> FALSE, value |-> v, fault |-> NoFault]
                          /\ at(m2, j) = [thrown |-> FALSE, value |-> DefaultValue,
                                          fault |-> NoFault]

\* C13: after insert, erase and operator[], clear() leaves size() 0, an
\* empty list, every slot empty and as many slots as before; a second
\* clear() changes nothing, and keys inserted afterwards are found.
C13_ClearEmpties ==
    /\ [](op.name = "clear" => Cleared)
    /\ [][Clear => Len(data_') = Len(data_)]_vars

\* clear() on a map of three entries in nine slots.
C13_Witness ==
    /\ op.name = "clear"
    /\ size_ = 0
    /\ Len(data_) = 9

\* C14: the copy constructor, given a map built by inserts of distinct keys
\* and erases, builds a map of the same size() whose begin()..end() yields
\* the same pairs in the same order and in which at gives for every key
\* what it gives in the source.
C14_CopyConstruction ==
    [][ConstructCopy
          => /\ fault' = NoFault
             /\ size_' = size_
             /\ Iteration(elemets_') = Iteration(elemets_)
             /\ KeysOf(elemets_) = {k \in Keys : Found(This, k)}
             /\ \A k \in Keys : at(This', k) = at(This, k)]_vars

\* The copy of a map of three entries: its table was reserved with six
\* slots and rebuilt to fifteen by the third insert.
C14_Witness ==
    /\ op.name = "HashMapCopy"
    /\ size_ = 3
    /\ Len(data_) = 15

\* C15: after a = another, at gives for every key found in a before what it
\* gave before, and for every other key of another what it gives in
\* another, whatever the sizes of a and another.
C15_AssignKeepsDestination ==
    [][\A another \in Sources :
          Assign(another)
              => \A k \in Keys :
                    /\ Found(This, k) => at(This', k) = at(This, k)
                    /\ (k \in KeysOf(another.elems) /\ ~Found(This, k))
                           => at(This', k) = at(another, k)]_vars

\* hasher_(key) % data_.size(), the slot where the probe for key begins.
Home(k) == hasher_(k) % Len(data_)

\* C16: every occupied slot at position p, the key of its entry being k,
\* holds distance = (p - hasher_(k) % capacity) mod capacity.
C16_Displacement ==
    \A p \in Occupied(data_) :
        IsLive(This, data_[p].iterator)
            => data_[p].distance =
                  ((p - 1) - Home(NodeOf(This, data_[p].iterator).first) + Len(data_))
                      % Len(data_)

\* After a = another an entry sits one slot past its home slot, across the
\* end of the table.
C16_Witness ==
    /\ op.name = "assign"
    /\ \E p \in Occupied(data_) :
           /\ data_[p].distance = 1
           /\ p - 1 < Home(NodeOf(This, data_[p].iterator).first)

\* C18: no probe loop of find, erase or insert visits more slots than the
\* table has, and a table with slots always has an empty one for the
\* loops to stop at.
C18_ProbeTermination ==
    /\ fault # "hang"
    /\ Len(data_) > 0 => Occupied(data_) # 1..Len(data_)

\* find(3) began at slot 0, which key 2 occupies one slot past its home,
\* and stopped at the empty slot behind it.
C18_Witness ==
    /\ op = Op("find", 3, FALSE)
    /\ fault = NoFault
    /\ Len(data_) = 9
    /\ ~data_[1].is_empty
    /\ data_[2].is_empty

\* C19: the iterator of every occupied slot designates a node of the list,
\* and no operation reads through an iterator whose node was destroyed.
C19_NoDanglingSlot ==
    /\ fault # "dangling"
    /\ SlotIds(data_) \subseteq Ids(elemets_)

\* erase has destroyed a node of a table of nine slots, rebuilt twice
\* before, and two entries remain indexed.
C19_Witness ==
    /\ op.name = "erase"
    /\ op.present
    /\ Len(data_) = 9
    /\ Cardinality(SlotIds(data_)) = 2

\* C20: a map with size() > 0 has a table of at least one slot, and no
\* operation evaluates hasher_(key) % data_.size() with data_.size() = 0.
C20_NoModuloByZero ==
    /\ fault # "div0"
    /\ size_ > 0 => Len(data_) > 0

====
